---------------------------- MODULE Spec2Model ----------------------------
(***************************************************************************)
(* Model of examples/rust/src/bin/client.rs: the subscription request      *)
(* builder (Action::get_subscribe_request), the streaming session          *)
(* (geyser_subscribe), the health watch (geyser_health_watch) and the      *)
(* retry loop of main.                                                     *)
(*                                                                         *)
(* Strings are sequences of one-character strings, so that split_once,     *)
(* trim and parse are computed and not assumed.  Option<T> is a record     *)
(* [some |-> FALSE] or [some |-> TRUE, val |-> v].  A HashMap is the set   *)
(* of its entries [k |-> key, v |-> value] (keys are unique).              *)
(***************************************************************************)
EXTENDS Integers, Sequences, FiniteSets, TLC

(***************************************************************************)
(* Bounds of the model.                                                    *)
(***************************************************************************)
\* Events the transport delivers during one run: the outcome of a connection
\* attempt, an inbound frame, a health message.
MaxEvents == 4
\* Largest resubscribe threshold (RESUB) drawn for the run.
MaxResub == 3
\* Longest accounts_memcmp / accounts_data_slice list given to the builder.
MaxList == 2

(***************************************************************************)
(* Option and Result values.                                               *)
(***************************************************************************)
None == [some |-> FALSE]
Some(v) == [some |-> TRUE, val |-> v]
Ok(v) == [ok |-> TRUE, val |-> v]
Err(e) == [ok |-> FALSE, err |-> e]

(***************************************************************************)
(* str::split_once(','), str::trim and FromStr for u64, usize and i32.     *)
(*                                                                         *)
(* A character is a one-character string; a character that cannot be       *)
(* written in a string is named by its code point ("U+000B").              *)
(***************************************************************************)
Digits == {"0", "1", "2", "3", "4", "5", "6", "7", "8", "9"}

DigitVal(c) ==
    CASE c = "0" -> 0 [] c = "1" -> 1 [] c = "2" -> 2 [] c = "3" -> 3
      [] c = "4" -> 4 [] c = "5" -> 5 [] c = "6" -> 6 [] c = "7" -> 7
      [] c = "8" -> 8 [] c = "9" -> 9

RECURSIVE DigitsVal(_)
DigitsVal(s) ==
    IF s = <<>> THEN 0
    ELSE DigitsVal(SubSeq(s, 1, Len(s) - 1)) * 10 + DigitVal(s[Len(s)])

\* The value of a digit string that follows a "-": it is accumulated below
\* zero, as the parser does, so that i32::MIN is reached without passing
\* through a value i32 cannot hold.
RECURSIVE NegDigitsVal(_)
NegDigitsVal(s) ==
    IF s = <<>> THEN 0
    ELSE NegDigitsVal(SubSeq(s, 1, Len(s) - 1)) * 10 - DigitVal(s[Len(s)])

\* The decimal numerals of u64::MAX, i32::MAX and -i32::MIN.
U64Max ==
    <<"1", "8", "4", "4", "6", "7", "4", "4", "0", "7", "3", "7", "0", "9",
      "5", "5", "1", "6", "1", "5">>
I32Max == <<"2", "1", "4", "7", "4", "8", "3", "6", "4", "7">>
I32MinMagnitude == <<"2", "1", "4", "7", "4", "8", "3", "6", "4", "8">>

\* A digit string without its leading zeros.
RECURSIVE Significant(_)
Significant(d) ==
    IF d # <<>> /\ d[1] = "0" THEN Significant(Tail(d)) ELSE d

\* a > b for digit strings of one length.
RECURSIVE DigitsGreater(_, _)
DigitsGreater(a, b) ==
    IF a = <<>> THEN FALSE
    ELSE IF a[1] # b[1] THEN DigitVal(a[1]) > DigitVal(b[1])
    ELSE DigitsGreater(Tail(a), Tail(b))

\* The number written by the digit string d is above the one written by max:
\* checked_mul or checked_add (checked_sub after a "-") returns None.
Overflows(d, max) ==
    \/ Len(Significant(d)) > Len(max)
    \/ Len(Significant(d)) = Len(max) /\ DigitsGreater(Significant(d), max)

\* <T as FromStr>::from_str for an integer type T: the empty string and a
\* lone sign are errors; a leading "+" is dropped, a leading "-" only for a
\* signed type; then the characters are taken from the left, and the first
\* one that is no digit, or that takes the value out of T's range, decides
\* the error.
from_str(s, signed, maxPos, maxNegMagnitude) ==
    IF s = <<>> THEN Err("cannot parse integer from empty string")
    ELSE IF Len(s) = 1 /\ s[1] \in {"+", "-"}
    THEN Err("invalid digit found in string")
    ELSE LET negative == signed /\ s[1] = "-"
             body == IF s[1] = "+" \/ negative THEN Tail(s) ELSE s
             max == IF negative THEN maxNegMagnitude ELSE maxPos
             bad == {i \in 1..Len(body) :
                        \/ body[i] \notin Digits
                        \/ /\ \A j \in 1..i : body[j] \in Digits
                           /\ Overflows(SubSeq(body, 1, i), max)}
             first == CHOOSE i \in bad : \A j \in bad : i <= j
         IN  IF bad = {}
             THEN Ok(IF negative THEN NegDigitsVal(body) ELSE DigitsVal(body))
             ELSE IF body[first] \notin Digits
             THEN Err("invalid digit found in string")
             ELSE IF negative
             THEN Err("number too small to fit in target type")
             ELSE Err("number too large to fit in target type")

\* u64::from_str and usize::from_str (usize has 64 bits on the targets of
\* the client).
parse_u64(s) == from_str(s, FALSE, U64Max, <<>>)

\* i32::from_str.
parse_i32(s) == from_str(s, TRUE, I32Max, I32MinMagnitude)

\* Index of the first comma of s, 0 when there is none.
FirstComma(s) ==
    IF \E i \in 1..Len(s) : s[i] = ","
    THEN CHOOSE i \in 1..Len(s) :
            s[i] = "," /\ \A j \in 1..(i - 1) : s[j] # ","
    ELSE 0

split_once(s) ==
    LET i == FirstComma(s)
    IN  IF i = 0 THEN None
        ELSE Some([left |-> SubSeq(s, 1, i - 1), right |-> SubSeq(s, i + 1, Len(s))])

\* The characters with the Unicode property White_Space.
WhiteSpace ==
    {"\t", "\n", "U+000B", "\f", "\r", " ", "U+0085", "U+00A0", "U+1680",
     "U+2000", "U+2001", "U+2002", "U+2003", "U+2004", "U+2005", "U+2006",
     "U+2007", "U+2008", "U+2009", "U+200A", "U+2028", "U+2029", "U+202F",
     "U+205F", "U+3000"}

\* str::trim: leading and trailing white space removed.
RECURSIVE trim(_)
trim(s) ==
    IF s = <<>> THEN s
    ELSE IF s[1] \in WhiteSpace THEN trim(Tail(s))
    ELSE IF s[Len(s)] \in WhiteSpace THEN trim(SubSeq(s, 1, Len(s) - 1))
    ELSE s

(***************************************************************************)
(* HashMap<String, V> as the set of its entries.                           *)
(***************************************************************************)
EmptyMap == {}
insert(m, key, value) == {e \in m : e.k # key} \cup {[k |-> key, v |-> value]}
Keys(m) == {e.k : e \in m}

(***************************************************************************)
(* SubscribeRequest and its Default.                                       *)
(***************************************************************************)
DefaultRequest ==
    [slots |-> EmptyMap, accounts |-> EmptyMap, transactions |-> EmptyMap,
     transactions_status |-> EmptyMap, entry |-> EmptyMap, blocks |-> EmptyMap,
     blocks_meta |-> EmptyMap, commitment |-> None,
     accounts_data_slice |-> <<>>, ping |-> None]

\* CommitmentLevel as i32 and ArgsCommitment -> CommitmentLevel.
CommitmentValue(c) ==
    CASE c = "Processed" -> 0 [] c = "Confirmed" -> 1 [] c = "Finalized" -> 2

\* Args::get_commitment: Some(self.commitment.unwrap_or_default().into()).
get_commitment(a) ==
    Some(IF a.commitment.some THEN a.commitment.val ELSE "Processed")

(***************************************************************************)
(* The file of account addresses read through accounts_account_path.       *)
(***************************************************************************)
FileRead(path) ==
    IF path = "accounts.json" THEN Ok(<<"AddrF1", "AddrF2">>)
    ELSE Err("io error")

(***************************************************************************)
(* Action::get_subscribe_request.                                          *)
(***************************************************************************)
\* A memcmp loop that leaves out the strings it cannot parse.
RECURSIVE MemcmpFiltersSkipMalformed(_)
MemcmpFiltersSkipMalformed(list) ==
    IF list = <<>> THEN Ok(<<>>)
    ELSE LET sp   == split_once(Head(list))
             rest == MemcmpFiltersSkipMalformed(Tail(list))
         IN  IF ~sp.some \/ ~parse_u64(sp.val.left).ok THEN rest
             ELSE Ok(<<[filter |-> "Memcmp",
                        offset |-> parse_u64(sp.val.left).val,
                        base58 |-> trim(sp.val.right)]>> \o rest.val)

\* A memcmp loop that pushes its filters in front of the earlier ones.
RECURSIVE MemcmpFiltersReversed(_)
MemcmpFiltersReversed(list) ==
    IF list = <<>> THEN Ok(<<>>)
    ELSE LET sp == split_once(Head(list))
         IN  IF ~sp.some THEN Err("invalid memcmp")
             ELSE LET off == parse_u64(sp.val.left)
                  IN  IF ~off.ok THEN Err("invalid offset")
                      ELSE LET rest == MemcmpFiltersReversed(Tail(list))
                           IN  IF ~rest.ok THEN rest
                               ELSE Ok(rest.val
                                       \o <<[filter |-> "Memcmp",
                                             offset |-> off.val,
                                             base58 |-> trim(sp.val.right)]>>)

\* The memcmp loop: the filters of the list, or the first error.
RECURSIVE MemcmpFilters(_)
MemcmpFilters(list) ==
    IF list = <<>> THEN Ok(<<>>)
    ELSE LET sp == split_once(Head(list))
         IN  IF ~sp.some THEN Err("invalid memcmp")
             ELSE LET off == parse_u64(sp.val.left)
                  IN  IF ~off.ok THEN Err("invalid offset")
                      ELSE LET rest == MemcmpFilters(Tail(list))
                           IN  IF ~rest.ok THEN rest
                               ELSE Ok(<<[filter |-> "Memcmp",
                                          offset |-> off.val,
                                          base58 |-> trim(sp.val.right)]>>
                                       \o rest.val)

\* A data-slice loop that takes the length first and the offset second.
RECURSIVE DataSlicesSwapped(_)
DataSlicesSwapped(list) ==
    IF list = <<>> THEN Ok(<<>>)
    ELSE LET sp == split_once(Head(list))
         IN  IF ~sp.some THEN Err("invalid data_slice")
             ELSE LET off == parse_u64(sp.val.right)
                      len == parse_u64(sp.val.left)
                  IN  IF ~(off.ok /\ len.ok) THEN Err("invalid data_slice")
                      ELSE LET rest == DataSlicesSwapped(Tail(list))
                           IN  IF ~rest.ok THEN rest
                               ELSE Ok(<<[offset |-> off.val, length |-> len.val]>>
                                       \o rest.val)

\* A data-slice loop that leaves out the strings it cannot parse.
RECURSIVE DataSlicesSkipMalformed(_)
DataSlicesSkipMalformed(list) ==
    IF list = <<>> THEN Ok(<<>>)
    ELSE LET sp   == split_once(Head(list))
             rest == DataSlicesSkipMalformed(Tail(list))
         IN  IF ~sp.some \/ ~parse_u64(sp.val.left).ok
                \/ ~parse_u64(sp.val.right).ok
             THEN rest
             ELSE Ok(<<[offset |-> parse_u64(sp.val.left).val,
                        length |-> parse_u64(sp.val.right).val]>> \o rest.val)

\* The data-slice loop: the slices of the list, or the first error.
RECURSIVE DataSlices(_)
DataSlices(list) ==
    IF list = <<>> THEN Ok(<<>>)
    ELSE LET sp == split_once(Head(list))
         IN  IF ~sp.some THEN Err("invalid data_slice")
             ELSE LET off == parse_u64(sp.val.left)
                      len == parse_u64(sp.val.right)
                  IN  IF ~(off.ok /\ len.ok) THEN Err("invalid data_slice")
                      ELSE LET rest == DataSlices(Tail(list))
                           IN  IF ~rest.ok THEN rest
                               ELSE Ok(<<[offset |-> off.val, length |-> len.val]>>
                                       \o rest.val)

\* The accounts block: the accounts map, or the first error.
AccountsMap(a) ==
    IF ~a.accounts THEN Ok(EmptyMap)
    ELSE LET file == IF a.accounts_account_path.some
                     THEN FileRead(a.accounts_account_path.val)
                     ELSE Ok(<<>>)
         IN  IF ~file.ok THEN file
             ELSE LET mem == MemcmpFilters(a.accounts_memcmp)
                  IN  IF ~mem.ok THEN mem
                      ELSE Ok(insert(EmptyMap, "client",
                             [account |-> a.accounts_account \o file.val,
                              owner   |-> a.accounts_owner,
                              filters |-> mem.val
                                 \o (IF a.accounts_datasize.some
                                     THEN <<[filter |-> "Datasize",
                                             size |-> a.accounts_datasize.val]>>
                                     ELSE <<>>)
                                 \o (IF a.accounts_token_account_state
                                     THEN <<[filter |-> "TokenAccountState",
                                             value |-> TRUE]>>
                                     ELSE <<>>)]))

\* The slots group under a label of its own.
SlotsMapOwnLabel(a) ==
    IF a.slots
    THEN insert(EmptyMap, "slots",
                [filter_by_commitment |-> Some(a.slots_filter_by_commitment)])
    ELSE EmptyMap

SlotsMap(a) ==
    IF a.slots
    THEN insert(EmptyMap, "client",
                [filter_by_commitment |-> Some(a.slots_filter_by_commitment)])
    ELSE EmptyMap

TransactionsMap(a) ==
    IF a.transactions
    THEN insert(EmptyMap, "client",
                [vote |-> a.transactions_vote,
                 failed |-> a.transactions_failed,
                 signature |-> a.transactions_signature,
                 account_include |-> a.transactions_account_include,
                 account_exclude |-> a.transactions_account_exclude,
                 account_required |-> a.transactions_account_required])
    ELSE EmptyMap

\* The transactions_status map built from the transactions sub-options.
TransactionsStatusMapFromTransactions(a) ==
    IF a.transactions_status
    THEN insert(EmptyMap, "client",
                [vote |-> a.transactions_vote,
                 failed |-> a.transactions_failed,
                 signature |-> a.transactions_signature,
                 account_include |-> a.transactions_account_include,
                 account_exclude |-> a.transactions_account_exclude,
                 account_required |-> a.transactions_account_required])
    ELSE EmptyMap

TransactionsStatusMap(a) ==
    IF a.transactions_status
    THEN insert(EmptyMap, "client",
                [vote |-> a.transactions_status_vote,
                 failed |-> a.transactions_status_failed,
                 signature |-> a.transactions_status_signature,
                 account_include |-> a.transactions_status_account_include,
                 account_exclude |-> a.transactions_status_account_exclude,
                 account_required |-> a.transactions_status_account_required])
    ELSE EmptyMap

EntryMap(a) ==
    IF a.entry THEN insert(EmptyMap, "client", [unit |-> TRUE]) ELSE EmptyMap

BlocksMap(a) ==
    IF a.blocks
    THEN insert(EmptyMap, "client",
                [account_include |-> a.blocks_account_include,
                 include_transactions |-> a.blocks_include_transactions,
                 include_accounts |-> a.blocks_include_accounts,
                 include_entries |-> a.blocks_include_entries])
    ELSE EmptyMap

BlocksMetaMap(a) ==
    IF a.blocks_meta THEN insert(EmptyMap, "client", [unit |-> TRUE]) ELSE EmptyMap

\* Result<Option<(SubscribeRequest, usize)>>.
get_subscribe_request(action, commitment) ==
    IF action.kind # "Subscribe" THEN Ok(None)
    ELSE LET a   == action.subscribe
             acc == AccountsMap(a)
         IN  IF ~acc.ok THEN acc
             ELSE LET ds == DataSlices(a.accounts_data_slice)
                  IN  IF ~ds.ok THEN ds
                      ELSE Ok(Some(
                             [request |->
                                [slots |-> SlotsMap(a),
                                 accounts |-> acc.val,
                                 transactions |-> TransactionsMap(a),
                                 transactions_status |-> TransactionsStatusMap(a),
                                 entry |-> EntryMap(a),
                                 blocks |-> BlocksMap(a),
                                 blocks_meta |-> BlocksMetaMap(a),
                                 commitment |->
                                    IF commitment.some
                                    THEN Some(CommitmentValue(commitment.val))
                                    ELSE None,
                                 accounts_data_slice |-> ds.val,
                                 ping |-> IF a.ping.some
                                          THEN Some([id |-> a.ping.val])
                                          ELSE None],
                              resub |-> IF a.resub.some THEN a.resub.val ELSE 0]))


(***************************************************************************)
(* The environment and Args::new_from_env.                                 *)
(*                                                                         *)
(* A variable of the environment is unset, set to bytes that are not       *)
(* Unicode, or set to a text.  The text of a variable the code splits or   *)
(* parses as a number is a sequence of characters; the text of a variable  *)
(* the code only compares or passes on is a plain string.                  *)
(***************************************************************************)
Unset == [set |-> FALSE]
NotUnicode == [set |-> TRUE, unicode |-> FALSE]
Text(s) == [set |-> TRUE, unicode |-> TRUE, text |-> s]

\* env::var(key).ok()
env_var(v) == IF v.set /\ v.unicode THEN Some(v.text) ELSE None

\* str::split(','): the pieces between the commas, at least one.
RECURSIVE split(_)
split(s) ==
    LET i == FirstComma(s)
    IN  IF i = 0 THEN <<s>>
        ELSE <<SubSeq(s, 1, i - 1)>> \o split(SubSeq(s, i + 1, Len(s)))

\* Lines 119-124: a bool variable; anything but "true" is false.
parse_bool(v) == env_var(v).some /\ env_var(v).val = "true"

\* parse_string_list that takes the whole value as one element.
parse_string_list_whole(v) ==
    IF env_var(v).some THEN <<trim(env_var(v).val)>> ELSE <<>>

\* Lines 127-132: a list variable, split on every comma, each piece trimmed.
parse_string_list(v) ==
    IF env_var(v).some
    THEN LET pieces == split(env_var(v).val)
         IN  [i \in 1..Len(pieces) |-> trim(pieces[i])]
    ELSE <<>>

\* env::var(key).ok().and_then(|s| s.parse().ok()) for u64 and usize.
parse_option_u64(v) ==
    IF env_var(v).some /\ parse_u64(env_var(v).val).ok
    THEN Some(parse_u64(env_var(v).val).val)
    ELSE None

\* env::var(key).ok().and_then(|s| s.parse().ok()) for i32.
parse_option_i32(v) ==
    IF env_var(v).some /\ parse_i32(env_var(v).val).ok
    THEN Some(parse_i32(env_var(v).val).val)
    ELSE None

\* env::var(key).ok().and_then(|s| s.parse().ok()) for bool.
parse_option_bool(v) ==
    IF env_var(v).some /\ env_var(v).val \in {"true", "false"}
    THEN Some(env_var(v).val = "true")
    ELSE None

\* Lines 117-169.
parse_subscribe_args_from_env(env) ==
    [accounts |-> parse_bool(env.SUBSCRIBE_ACCOUNTS),
     accounts_account |-> parse_string_list(env.ACCOUNTS_ACCOUNT),
     accounts_account_path |-> env_var(env.ACCOUNTS_ACCOUNT_PATH),
     accounts_owner |-> parse_string_list(env.ACCOUNTS_OWNER),
     accounts_memcmp |-> parse_string_list(env.ACCOUNTS_MEMCMP),
     accounts_datasize |-> parse_option_u64(env.ACCOUNTS_DATASIZE),
     accounts_token_account_state |-> parse_bool(env.ACCOUNTS_TOKEN_ACCOUNT_STATE),
     accounts_data_slice |-> parse_string_list(env.ACCOUNTS_DATA_SLICE),
     slots |-> parse_bool(env.SUBSCRIBE_SLOTS),
     slots_filter_by_commitment |-> parse_bool(env.SLOTS_FILTER_BY_COMMITMENT),
     transactions |-> parse_bool(env.SUBSCRIBE_TRANSACTIONS),
     transactions_vote |-> parse_option_bool(env.TRANSACTIONS_VOTE),
     transactions_failed |-> parse_option_bool(env.TRANSACTIONS_FAILED),
     transactions_signature |-> env_var(env.TRANSACTIONS_SIGNATURE),
     transactions_account_include |->
        parse_string_list(env.TRANSACTIONS_ACCOUNT_INCLUDE),
     transactions_account_exclude |->
        parse_string_list(env.TRANSACTIONS_ACCOUNT_EXCLUDE),
     transactions_account_required |->
        parse_string_list(env.TRANSACTIONS_ACCOUNT_REQUIRED),
     transactions_status |-> parse_bool(env.SUBSCRIBE_TRANSACTIONS_STATUS),
     transactions_status_vote |-> parse_option_bool(env.TRANSACTIONS_STATUS_VOTE),
     transactions_status_failed |->
        parse_option_bool(env.TRANSACTIONS_STATUS_FAILED),
     transactions_status_signature |-> env_var(env.TRANSACTIONS_STATUS_SIGNATURE),
     transactions_status_account_include |->
        parse_string_list(env.TRANSACTIONS_STATUS_ACCOUNT_INCLUDE),
     transactions_status_account_exclude |->
        parse_string_list(env.TRANSACTIONS_STATUS_ACCOUNT_EXCLUDE),
     transactions_status_account_required |->
        parse_string_list(env.TRANSACTIONS_STATUS_ACCOUNT_REQUIRED),
     entry |-> parse_bool(env.SUBSCRIBE_ENTRY),
     blocks |-> parse_bool(env.SUBSCRIBE_BLOCKS),
     blocks_account_include |-> parse_string_list(env.BLOCKS_ACCOUNT_INCLUDE),
     blocks_include_transactions |->
        parse_option_bool(env.BLOCKS_INCLUDE_TRANSACTIONS),
     blocks_include_accounts |-> parse_option_bool(env.BLOCKS_INCLUDE_ACCOUNTS),
     blocks_include_entries |-> parse_option_bool(env.BLOCKS_INCLUDE_ENTRIES),
     blocks_meta |-> parse_bool(env.SUBSCRIBE_BLOCKS_META),
     ping |-> parse_option_i32(env.PING_COUNT),
     resub |-> parse_option_u64(env.RESUB)]

\* The unary calls of main's match: one request, one response.
OneShotKinds ==
    {"HealthCheck", "Ping", "GetLatestBlockhash", "GetBlockHeight", "GetSlot",
     "IsBlockhashValid", "GetVersion"}

\* Lines 41-100: Result<Args>.  The endpoint and the token only go to the
\* transport.
new_from_env(env) ==
    IF ~env_var(env.ENDPOINT).some
    THEN Err("ENDPOINT environment variable not set")
    ELSE IF ~env_var(env.ACTION).some
    THEN Err("ACTION environment variable not set")
    ELSE LET commitment ==
                 IF ~env_var(env.COMMITMENT).some THEN None
                 ELSE IF env_var(env.COMMITMENT).val \in {"Confirmed", "Finalized"}
                 THEN Some(env_var(env.COMMITMENT).val)
                 ELSE Some("Processed")
             action == env_var(env.ACTION).val
         IN  IF action = "IsBlockhashValid" /\ ~env_var(env.BLOCKHASH).some
             THEN Err("BLOCKHASH environment variable required for IsBlockhashValid action")
             ELSE IF action = "Ping"
             THEN Ok([commitment |-> commitment,
                      action |-> [kind |-> "Ping",
                                  count |-> IF parse_option_i32(env.PING_COUNT).some
                                            THEN parse_option_i32(env.PING_COUNT).val
                                            ELSE 0]])
             ELSE IF action = "IsBlockhashValid"
             THEN Ok([commitment |-> commitment,
                      action |-> [kind |-> "IsBlockhashValid",
                                  blockhash |-> env_var(env.BLOCKHASH).val]])
             ELSE IF action \in OneShotKinds \cup {"HealthWatch"}
             THEN Ok([commitment |-> commitment, action |-> [kind |-> action]])
             ELSE IF action = "Subscribe"
             THEN Ok([commitment |-> commitment,
                      action |-> [kind |-> "Subscribe",
                                  subscribe |-> parse_subscribe_args_from_env(env)]])
             ELSE Err("Invalid ACTION value")

(***************************************************************************)
(* The run's configuration (Args) and what the transport can deliver.      *)
(***************************************************************************)
\* ActionSubscribe with every list empty, every flag false, every option None.
DefaultSubscribe ==
    [accounts |-> FALSE, accounts_account |-> <<>>, accounts_account_path |-> None,
     accounts_owner |-> <<>>, accounts_memcmp |-> <<>>, accounts_datasize |-> None,
     accounts_token_account_state |-> FALSE, accounts_data_slice |-> <<>>,
     slots |-> FALSE, slots_filter_by_commitment |-> FALSE,
     transactions |-> FALSE, transactions_vote |-> None,
     transactions_failed |-> None, transactions_signature |-> None,
     transactions_account_include |-> <<>>, transactions_account_exclude |-> <<>>,
     transactions_account_required |-> <<>>,
     transactions_status |-> FALSE, transactions_status_vote |-> None,
     transactions_status_failed |-> None, transactions_status_signature |-> None,
     transactions_status_account_include |-> <<>>,
     transactions_status_account_exclude |-> <<>>,
     transactions_status_account_required |-> <<>>,
     entry |-> FALSE, blocks |-> FALSE, blocks_account_include |-> <<>>,
     blocks_include_transactions |-> None, blocks_include_accounts |-> None,
     blocks_include_entries |-> None, blocks_meta |-> FALSE,
     ping |-> None, resub |-> None]

\* The variables main reads.
EnvKeys ==
    {"ENDPOINT", "X_TOKEN", "COMMITMENT", "ACTION", "PING_COUNT", "BLOCKHASH",
     "SUBSCRIBE_ACCOUNTS", "ACCOUNTS_ACCOUNT", "ACCOUNTS_ACCOUNT_PATH",
     "ACCOUNTS_OWNER", "ACCOUNTS_MEMCMP", "ACCOUNTS_DATASIZE",
     "ACCOUNTS_TOKEN_ACCOUNT_STATE", "ACCOUNTS_DATA_SLICE", "SUBSCRIBE_SLOTS",
     "SLOTS_FILTER_BY_COMMITMENT", "SUBSCRIBE_TRANSACTIONS", "TRANSACTIONS_VOTE",
     "TRANSACTIONS_FAILED", "TRANSACTIONS_SIGNATURE",
     "TRANSACTIONS_ACCOUNT_INCLUDE", "TRANSACTIONS_ACCOUNT_EXCLUDE",
     "TRANSACTIONS_ACCOUNT_REQUIRED", "SUBSCRIBE_TRANSACTIONS_STATUS",
     "TRANSACTIONS_STATUS_VOTE", "TRANSACTIONS_STATUS_FAILED",
     "TRANSACTIONS_STATUS_SIGNATURE", "TRANSACTIONS_STATUS_ACCOUNT_INCLUDE",
     "TRANSACTIONS_STATUS_ACCOUNT_EXCLUDE", "TRANSACTIONS_STATUS_ACCOUNT_REQUIRED",
     "SUBSCRIBE_ENTRY", "SUBSCRIBE_BLOCKS", "BLOCKS_ACCOUNT_INCLUDE",
     "BLOCKS_INCLUDE_TRANSACTIONS", "BLOCKS_INCLUDE_ACCOUNTS",
     "BLOCKS_INCLUDE_ENTRIES", "SUBSCRIBE_BLOCKS_META", "RESUB"}

\* ENDPOINT and ACTION=Subscribe, nothing else set.
SubscribeEnv ==
    [[k \in EnvKeys |-> Unset] EXCEPT
        !.ENDPOINT = Text("http://127.0.0.1:10000"), !.ACTION = Text("Subscribe")]

\* Environments the runs are drawn from: well-formed ones, and one for each
\* way the build can fail (or fail to fail).
EnvSlots == [SubscribeEnv EXCEPT !.SUBSCRIBE_SLOTS = Text("true")]
EnvAccounts ==
    [SubscribeEnv EXCEPT
        !.SUBSCRIBE_ACCOUNTS = Text("true"),
        !.ACCOUNTS_ACCOUNT = Text(<<"A", "1">>),
        !.ACCOUNTS_ACCOUNT_PATH = Text("accounts.json"),
        !.ACCOUNTS_DATASIZE = Text(<<"8">>),
        !.SUBSCRIBE_TRANSACTIONS = Text("true"),
        !.PING_COUNT = Text(<<"7">>)]
EnvBadMemcmp ==
    [SubscribeEnv EXCEPT
        !.SUBSCRIBE_ACCOUNTS = Text("true"), !.ACCOUNTS_MEMCMP = Text(<<"x">>)]
\* ACCOUNTS_MEMCMP="1,ab"
EnvSplitMemcmp ==
    [SubscribeEnv EXCEPT
        !.SUBSCRIBE_ACCOUNTS = Text("true"),
        !.ACCOUNTS_MEMCMP = Text(<<"1", ",", "a", "b">>)]
EnvIgnoredMemcmp ==
    [SubscribeEnv EXCEPT
        !.SUBSCRIBE_ACCOUNTS = Text("false"), !.ACCOUNTS_MEMCMP = Text(<<"x">>),
        !.SUBSCRIBE_BLOCKS_META = Text("true"), !.PING_COUNT = Text(<<"-", "1">>),
        !.SUBSCRIBE_TRANSACTIONS_STATUS = Text("true"),
        !.SUBSCRIBE_ENTRY = Text("true"), !.SUBSCRIBE_BLOCKS = Text("true")]
\* ACCOUNTS_DATA_SLICE="12"
EnvBadSlice ==
    [SubscribeEnv EXCEPT
        !.SUBSCRIBE_SLOTS = Text("true"), !.ACCOUNTS_DATA_SLICE = Text(<<"1", "2">>)]
\* ACCOUNTS_DATA_SLICE="0,4"
EnvSplitSlice ==
    [SubscribeEnv EXCEPT
        !.SUBSCRIBE_ACCOUNTS = Text("true"),
        !.ACCOUNTS_DATA_SLICE = Text(<<"0", ",", "4">>)]
EnvBadFile ==
    [SubscribeEnv EXCEPT
        !.SUBSCRIBE_ACCOUNTS = Text("true"),
        !.ACCOUNTS_ACCOUNT_PATH = Text("missing.json")]

SubscribeEnvPool ==
    {EnvSlots, EnvAccounts, EnvBadMemcmp, EnvSplitMemcmp, EnvIgnoredMemcmp,
     EnvBadSlice, EnvSplitSlice, EnvBadFile}

\* Values of RESUB: unset, or a threshold up to MaxResub.
Resubs == {Unset} \cup {Text(<<d>>) : d \in {x \in Digits : DigitVal(x) <= MaxResub}}

\* Every threshold is drawn with the slots-only environment; the other
\* environments come with one threshold each.  COMMITMENT is set for the
\* actions other than Subscribe and for the subscriptions to accounts.
EnvPool ==
    {[SubscribeEnv EXCEPT
        !.ACTION = Text(k), !.BLOCKHASH = Text("hash"), !.COMMITMENT = c] :
        k \in OneShotKinds \cup {"HealthWatch"}, c \in {Unset, Text("Finalized")}}
    \cup {[EnvSlots EXCEPT !.RESUB = r] : r \in Resubs}
    \cup {[e EXCEPT !.RESUB = Text(<<"1">>)] : e \in SubscribeEnvPool \ {EnvSlots}}
    \cup {[e EXCEPT !.RESUB = Text(<<"1">>), !.COMMITMENT = Text("Finalized")] :
            e \in {x \in SubscribeEnvPool : parse_bool(x.SUBSCRIBE_ACCOUNTS)}}

(***************************************************************************)
(* Option sets given to get_subscribe_request on its own.                  *)
(***************************************************************************)
\* ActionSubscribe with every sub-option set, each to a value of its own.
FilledSubscribe ==
    [accounts |-> FALSE, accounts_account |-> <<"Addr1">>,
     accounts_account_path |-> Some("accounts.json"),
     accounts_owner |-> <<"Owner1">>,
     accounts_memcmp |-> << <<"1", ",", "a", "b">> >>,
     accounts_datasize |-> Some(8),
     accounts_token_account_state |-> TRUE,
     accounts_data_slice |-> << <<"0", ",", "4">> >>,
     slots |-> FALSE, slots_filter_by_commitment |-> TRUE,
     transactions |-> FALSE, transactions_vote |-> Some(TRUE),
     transactions_failed |-> Some(FALSE), transactions_signature |-> Some("SigT"),
     transactions_account_include |-> <<"TxInc">>,
     transactions_account_exclude |-> <<"TxExc">>,
     transactions_account_required |-> <<"TxReq">>,
     transactions_status |-> FALSE, transactions_status_vote |-> Some(FALSE),
     transactions_status_failed |-> Some(TRUE),
     transactions_status_signature |-> Some("SigS"),
     transactions_status_account_include |-> <<"StInc">>,
     transactions_status_account_exclude |-> <<"StExc">>,
     transactions_status_account_required |-> <<"StReq">>,
     entry |-> FALSE, blocks |-> FALSE, blocks_account_include |-> <<"BlkInc">>,
     blocks_include_transactions |-> Some(TRUE),
     blocks_include_accounts |-> Some(FALSE),
     blocks_include_entries |-> Some(TRUE), blocks_meta |-> FALSE,
     ping |-> Some(7), resub |-> Some(2)]

\* Every setting of the seven gates, over the default and the filled
\* sub-options.
GatePool ==
    {[s EXCEPT !.accounts = g[1], !.slots = g[2], !.transactions = g[3],
               !.transactions_status = g[4], !.entry = g[5], !.blocks = g[6],
               !.blocks_meta = g[7]] :
        s \in {DefaultSubscribe, FilledSubscribe}, g \in [1..7 -> BOOLEAN]}

\* Strings an accounts_memcmp element can be.
MemcmpStrings ==
    { <<"1", ",", "a", "b">>,            \* "1,ab"
      <<"+", "0", ",", "a">>,            \* "+0,a"
      <<"1", "2", ",", "a", ",", "b">>,  \* "12,a,b"
      <<"0", "7", ",", "\t", "a", " ">>, \* "07,<tab>a "
      <<"x">>,                           \* "x"
      <<"1", "8", "4", "4", "6", "7", "4", "4", "0", "7", "3", "7", "0", "9",
         "5", "5", "1", "6", "1", "6", ",", "a">>,  \* "18446744073709551616,a"
      <<",", "a", "b">>,                 \* ",ab"
      <<"-", "1", ",", "a">> }           \* "-1,a"

\* Strings an accounts_data_slice element can be.
SliceStrings ==
    { <<"0", ",", "4">>,                 \* "0,4"
      <<"0", "7", ",", "+", "1", "0">>,  \* "07,+10"
      <<"3", ",">>,                      \* "3,"
      <<"1", "2">>,                      \* "12"
      <<"a", ",", "1">>,                 \* "a,1"
      <<"1", ",", "1", "8", "4", "4", "6", "7", "4", "4", "0", "7", "3", "7",
         "0", "9", "5", "5", "1", "6", "1", "6">>,  \* "1,18446744073709551616"
      <<"1", ",", "2", ",", "3">>,       \* "1,2,3"
      <<" ", "1", ",", "2">> }           \* " 1,2"

\* Vec<String> values of at most n elements.
ListsUpTo(S, n) == UNION {[1..k -> S] : k \in 0..n}

\* Every memcmp list, with the accounts gate, the two other account filters
\* and the address file each way.
MemcmpPool ==
    {[DefaultSubscribe EXCEPT
        !.accounts = acc, !.accounts_memcmp = l, !.accounts_datasize = size,
        !.accounts_token_account_state = tok, !.accounts_account_path = path] :
        acc \in BOOLEAN, l \in ListsUpTo(MemcmpStrings, MaxList),
        size \in {None, Some(8)}, tok \in BOOLEAN,
        path \in {None, Some("accounts.json"), Some("missing.json")}}

\* Every data-slice list, with the accounts gate and another gate each way,
\* and an accounts block that builds or fails.
SlicePool ==
    {[DefaultSubscribe EXCEPT
        !.accounts = acc, !.slots = sl, !.accounts_data_slice = l,
        !.accounts_memcmp = mem, !.accounts_account_path = path] :
        acc \in BOOLEAN, sl \in BOOLEAN, l \in ListsUpTo(SliceStrings, MaxList),
        mem \in {<<>>, << <<"x">> >>, << <<"1", ",", "a", "b">> >>},
        path \in {None, Some("missing.json")}}

BuildArgsPool ==
    {[commitment |-> c, action |-> [kind |-> "Subscribe", subscribe |-> s]] :
        c \in {None, Some("Confirmed")}, s \in GatePool}
    \cup {[commitment |-> None, action |-> [kind |-> "Subscribe", subscribe |-> s]] :
        s \in MemcmpPool \cup SlicePool}

\* SubscribeUpdate.update_oneof, with what the decoders look at: `body` says
\* whether the nested message is there ("missing": the Option is None) and
\* whether its keys and signatures have the right length ("invalid").
Frames ==
    {[kind |-> "Account", body |-> b] : b \in {"ok", "missing", "invalid"}}
    \cup {[kind |-> "Transaction", body |-> b] : b \in {"ok", "missing", "invalid"}}
    \cup {[kind |-> "TransactionStatus", body |-> b] : b \in {"ok", "invalid"}}
    \cup {[kind |-> k, body |-> "ok"] :
            k \in {"Slot", "Block", "BlockMeta", "Entry", "Ping", "Pong", "None"}}

\* Errors a call or a stream item can carry (tonic Status).
Statuses == {"Unavailable", "InvalidArgument"}

(***************************************************************************)
(* The retry policy: ExponentialBackoff::default(), in microseconds.       *)
(*                                                                         *)
(* The policy is code of the backoff crate, which is not among the files   *)
(* of the repository.  The repository states of it: line 584 takes the     *)
(* crate's default policy; the comment of lines 581-583 lists its          *)
(* intervals, 500 ms growing by 1.5; the specification calls it            *)
(* "exponential backoff with jitter" with delays that stop growing "at     *)
(* cap".  The size of the jitter (half the interval either way) and the    *)
(* cap (60 s) are the crate's defaults and stand in no file of the         *)
(* repository; the comment's list runs on past the cap (64.8 s, 97 s).     *)
(***************************************************************************)
InitialInterval == 500000
MaxInterval == 60000000

\* ExponentialBackoff::increment_current_interval: multiplier 1.5, and an
\* interval that would pass max_interval becomes max_interval.
increment_current_interval(i) ==
    IF (i * 3) \div 2 > MaxInterval THEN MaxInterval ELSE (i * 3) \div 2

\* randomization_factor 0.5: a delay between 0.5 and 1.5 times the interval;
\* the model draws the two ends and the middle of that range.
RandomizedIntervals(i) == {i \div 2, i, i + i \div 2}


(***************************************************************************)
(* State.                                                                  *)
(***************************************************************************)
VARIABLES
    environ,        \* the environment of the process (with .env loaded)
    args,           \* Args::new_from_env(): fixed for the run
    zero_attempts,  \* the Mutex<bool> of main
    pc,             \* where main is: "attempt", "connect", "connected",
                    \* "subscribe", "recv", "ack", "resub", "health_open",
                    \* "health_recv", "retry", "stopped", "panicked"
    attempts,       \* calls of the retried closure so far
    client,         \* TRUE while a GeyserGrpcClient (a connection) is alive
    connects,       \* connections opened so far
    interval,       \* ExponentialBackoff.current_interval
    waits,          \* the delays slept so far, in order
    ret,            \* what the closure returned: [kind, err]
    result,         \* what main returns: None until it does
    request,        \* geyser_subscribe's request parameter
    resub,          \* geyser_subscribe's resub parameter
    counter,        \* geyser_subscribe's counter
    trace,          \* frames read from and written to the stream that is open
    cause,          \* how the session of this attempt was left
    left            \* events the transport may still deliver

vars ==
    <<environ, args, zero_attempts, pc, attempts, client, connects, interval, waits,
      ret, result, request, resub, counter, trace, cause, left>>

NoRet == [kind |-> "none"]
RetOk == [kind |-> "Ok"]
Transient(e) == [kind |-> "Transient", err |-> e]
Permanent(e) == [kind |-> "Permanent", err |-> e]

In(f) == [dir |-> "in", frame |-> f]
Out(site, req) == [dir |-> "out", site |-> site, req |-> req]

Init ==
    /\ environ \in EnvPool
    /\ args = new_from_env(environ).val
    /\ zero_attempts = TRUE
    /\ pc = "attempt"
    /\ attempts = 0
    /\ client = FALSE
    /\ connects = 0
    /\ interval = InitialInterval
    /\ waits = <<>>
    /\ ret = NoRet
    /\ result = None
    /\ request = DefaultRequest
    /\ resub = 0
    /\ counter = 0
    /\ trace = <<>>
    /\ cause = "none"
    /\ left = MaxEvents

(***************************************************************************)
(* main: the closure given to retry.                                       *)
(***************************************************************************)
\* Lines 589-597: the first-attempt flag.
AttemptStart ==
    /\ pc = "attempt"
    /\ zero_attempts' = FALSE
    /\ attempts' = attempts + 1
    /\ cause' = "none"
    /\ pc' = "connect"
    /\ UNCHANGED <<environ, args, client, connects, interval, waits, ret, result,
                   request, resub, counter, trace, left>>

\* A closure whose client outlives its return.
ClientLeaked == TRUE

\* `client` once the closure's future has completed (or unwound): the
\* GeyserGrpcClient it owned, moved into the action it ran (616-648), has been
\* dropped, and the sink and the stream of geyser_subscribe with it.
ClientDropped == FALSE

\* Line 598: args.connect().await.map_err(backoff::Error::transient)?
Connect ==
    /\ pc = "connect"
    /\ left > 0
    /\ left' = left - 1
    /\ \E ok \in BOOLEAN :
         IF ok
         THEN /\ client' = TRUE
              /\ connects' = connects + 1
              /\ pc' = "connected"
              /\ ret' = ret
         ELSE /\ ret' = Transient("connect error")
              /\ pc' = "retry"
              /\ UNCHANGED <<client, connects>>
    /\ UNCHANGED <<environ, args, zero_attempts, attempts, interval, waits, result,
                   request, resub, counter, trace, cause>>

\* main returning every error of the action at once.
ActionErrorClassPermanent(status) == "Permanent"

\* The class main gives to an error of the action it ran (line 649).
ActionErrorClass(status) == "Transient"

\* Lines 602-606, 618-647: one unary call; the response is logged.
OneShot ==
    /\ pc = "connected"
    /\ args.action.kind \in OneShotKinds
    /\ \E resp \in {"ok"} \cup Statuses :
         ret' = IF resp = "ok" THEN RetOk
                ELSE [kind |-> ActionErrorClass(resp), err |-> resp]
    /\ client' = ClientDropped
    /\ pc' = "retry"
    /\ UNCHANGED <<environ, args, zero_attempts, attempts, connects, interval, waits,
                   result, request, resub, counter, trace, cause, left>>

\* BuildErrorClass with the build error wrapped like every other error.
BuildErrorClassTransient == "Transient"

\* The class main gives to an error of get_subscribe_request (line 613).
BuildErrorClass == "Permanent"

\* Lines 608-614: build the request once the connection is there.
BuildRequest ==
    /\ pc = "connected"
    /\ args.action.kind = "Subscribe"
    /\ LET built == get_subscribe_request(args.action, get_commitment(args))
       IN  IF built.ok
           THEN /\ request' = built.val.val.request
                /\ resub' = built.val.val.resub
                /\ pc' = "subscribe"
                /\ UNCHANGED <<ret, client>>
           ELSE /\ ret' = [kind |-> BuildErrorClass, err |-> built.err]
                /\ client' = ClientDropped
                /\ pc' = "retry"
                /\ UNCHANGED <<request, resub>>
    /\ UNCHANGED <<environ, args, zero_attempts, attempts, connects, interval, waits,
                   result, counter, trace, cause, left>>


\* The builder on its own: main at line 608, the connection just opened on
\* the first attempt, for every option set of BuildArgsPool.  The option sets
\* are handed to the builder as they are, not loaded from the environment.
InitBuild ==
    /\ environ = SubscribeEnv
    /\ args \in BuildArgsPool
    /\ zero_attempts = FALSE
    /\ pc = "connected"
    /\ attempts = 1
    /\ client = TRUE
    /\ connects = 1
    /\ interval = InitialInterval
    /\ waits = <<>>
    /\ ret = NoRet
    /\ result = None
    /\ request = DefaultRequest
    /\ resub = 0
    /\ counter = 0
    /\ trace = <<>>
    /\ cause = "none"
    /\ left = MaxEvents - 1

SpecBuild == InitBuild /\ [][BuildRequest]_vars

\* Values of ACCOUNTS_DATA_SLICE.
SliceValues ==
    {Unset, NotUnicode,
     Text(<<>>),                                   \* ""
     Text(<<"0", ",", "4">>),                      \* "0,4"
     Text(<<"0", "7", ",", "+", "1", "0">>),       \* "07,+10"
     Text(<<" ", "0", "\t", ",", " ", "4", "\n">>), \* " 0<tab>, 4<newline>"
     Text(<<"1", "2">>),                           \* "12"
     Text(<<"a", ",", "1">>),                      \* "a,1"
     Text(<<",">>),                                \* ","
     Text(<<"0", ",", "4", ",", "1", ",", "2">>)}  \* "0,4,1,2"

\* Environments of a subscription: every value of ACCOUNTS_DATA_SLICE, with
\* the accounts gate, another gate, a memcmp list, an address list and an
\* address file each way.
BuildEnvPool ==
    {[SubscribeEnv EXCEPT
        !.ACCOUNTS_DATA_SLICE = slice, !.SUBSCRIBE_ACCOUNTS = acc,
        !.SUBSCRIBE_SLOTS = sl, !.ACCOUNTS_MEMCMP = mem,
        !.ACCOUNTS_ACCOUNT = addr, !.ACCOUNTS_ACCOUNT_PATH = path] :
        slice \in SliceValues,
        acc \in {Unset, Text("true"), Text("false")},
        sl \in {Unset, Text("true")},
        mem \in {Unset, Text(<<"1", ",", "a", "b">>)},
        addr \in {Unset, Text(<<"A", "1", ",", "\t", " ", "B", "2", "\n">>)},
        path \in {Unset, Text("missing.json")}}

\* main at line 608 on the first attempt, the options loaded from the
\* environment (line 578), for every environment of BuildEnvPool.
InitEnv ==
    /\ environ \in BuildEnvPool
    /\ args = new_from_env(environ).val
    /\ zero_attempts = FALSE
    /\ pc = "connected"
    /\ attempts = 1
    /\ client = TRUE
    /\ connects = 1
    /\ interval = InitialInterval
    /\ waits = <<>>
    /\ ret = NoRet
    /\ result = None
    /\ request = DefaultRequest
    /\ resub = 0
    /\ counter = 0
    /\ trace = <<>>
    /\ cause = "none"
    /\ left = MaxEvents - 1

SpecEnv == InitEnv /\ [][BuildRequest]_vars

(***************************************************************************)
(* geyser_health_watch.                                                    *)
(***************************************************************************)
\* Line 660: client.health_watch().await?
HealthOpen ==
    /\ pc = "connected"
    /\ args.action.kind = "HealthWatch"
    /\ \E ok \in BOOLEAN :
         IF ok
         THEN /\ pc' = "health_recv"
              /\ UNCHANGED <<ret, client>>
         ELSE /\ ret' = Transient("Unavailable")
              /\ client' = ClientDropped
              /\ pc' = "retry"
    /\ UNCHANGED <<environ, args, zero_attempts, attempts, connects, interval, waits,
                   result, request, resub, counter, trace, cause, left>>

\* Lines 662-666: every message, Ok or Err, is logged; the end returns Ok.
HealthRecv ==
    /\ pc = "health_recv"
    /\ \/ /\ left > 0
          /\ left' = left - 1
          /\ UNCHANGED <<pc, ret, client>>
       \/ /\ ret' = RetOk
          /\ client' = ClientDropped
          /\ pc' = "retry"
          /\ left' = left
    /\ UNCHANGED <<environ, args, zero_attempts, attempts, connects, interval, waits,
                   result, request, resub, counter, trace, cause>>

(***************************************************************************)
(* geyser_subscribe.                                                       *)
(***************************************************************************)
\* PingAck made from the initial request with only ping replaced.
PingAckFromInitial == [request EXCEPT !.ping = Some([id |-> 1])]

\* Lines 709-713: the reply to a Ping.
PingAck == [DefaultRequest EXCEPT !.ping = Some([id |-> 1])]

\* ResubRequest made from the initial request with only slots replaced.
ResubRequestFromInitial ==
    [request EXCEPT
        !.slots = insert(EmptyMap, "client", [filter_by_commitment |-> None])]

\* Lines 729-744: the resubscription request.
ResubRequest ==
    [slots |-> insert(EmptyMap, "client", [filter_by_commitment |-> None]),
     accounts |-> EmptyMap, transactions |-> EmptyMap,
     transactions_status |-> EmptyMap, entry |-> EmptyMap, blocks |-> EmptyMap,
     blocks_meta |-> EmptyMap, commitment |-> None,
     accounts_data_slice |-> <<>>, ping |-> None]

\* Lines 481-568: whether From<SubscribeUpdate*> returns; it panics on
\* expect() when the nested message is None or a key/signature is malformed.
Decodes(f) == f.body = "ok"

\* Arm with the Ping arm lost: a Ping falls to `_ => {}`.
ArmPingUnhandled(f) ==
    IF f.kind \in {"Account", "Transaction", "TransactionStatus"}
    THEN f.kind
    ELSE "Other"

\* Lines 681-717: the arm of `match msg.update_oneof` a frame takes.
Arm(f) ==
    IF f.kind \in {"Account", "Transaction", "TransactionStatus", "Ping"}
    THEN f.kind
    ELSE "Other"

\* OnPing with the threshold test moved before the ack.
OnPingResubFirst(c, r) == IF c + 1 = r THEN "resub" ELSE "ack"

\* OnPing with the ack left to be written while the loop reads on.
OnPingReadOn(c, r) == "recv"

\* Lines 706-715: the Ping arm sends the ack before anything else is done
\* with the frame (c is the counter, r the threshold).
OnPing(c, r) == "ack"

\* Continues with the catch-all arm skipping the counter as well.
ContinuesAlsoOther(arm) ==
    arm \in {"Account", "Transaction", "TransactionStatus", "Other"}

\* Continues with no arm ending in `continue`: every frame is counted.
ContinuesNever(arm) == FALSE

\* The arms that end in `continue` (lines 688, 696, 704).
Continues(arm) == arm \in {"Account", "Transaction", "TransactionStatus"}

\* ResubDue with `>=` for `==`.
ResubDueAtOrAfter(c, r) == c >= r

\* Line 728: `if counter == resub`, on the counter just incremented.
ResubDue(c, r) == c = r

\* Lines 727-728: where the iteration goes after the match.
AfterMatch(c, r) == IF ResubDue(c, r) THEN "resub" ELSE "recv"

\* What geyser_subscribe returns after `break` on a stream error (722, 750).
ReturnOnStreamError(status) == RetOk

\* Line 674: open the stream with the initial request.
SubscribeOpen ==
    /\ pc = "subscribe"
    /\ \E ok \in BOOLEAN :
         IF ok
         THEN /\ trace' = <<Out("initial", request)>>
              /\ counter' = 0
              /\ cause' = "none"
              /\ pc' = "recv"
              /\ UNCHANGED <<ret, client>>
         ELSE /\ ret' = [kind |-> ActionErrorClass("subscribe error"), err |-> "subscribe error"]
              /\ client' = ClientDropped
              /\ pc' = "retry"
              /\ UNCHANGED <<trace, counter, cause>>
    /\ UNCHANGED <<environ, args, zero_attempts, attempts, connects, interval, waits,
                   result, request, resub, left>>

\* geyser_subscribe reporting the end of the stream as a retryable error.
ReturnOnStreamEndTransient == Transient("stream closed")

\* Lines 749-750: after the loop ends, "stream closed" is logged and
\* geyser_subscribe returns Ok(()).
ReturnOnStreamEnd == RetOk

\* Line 678, item None: the peer closed the stream.
RecvEnd ==
    /\ pc = "recv"
    /\ cause' = "EndOfStream"
    /\ ret' = ReturnOnStreamEnd
    /\ client' = ClientDropped
    /\ trace' = <<>>
    /\ counter' = 0
    /\ pc' = "retry"
    /\ UNCHANGED <<environ, args, zero_attempts, attempts, connects, interval, waits,
                   result, request, resub, left>>

\* Lines 720-723, item Some(Err(error)): log, break, return.
RecvError ==
    /\ pc = "recv"
    /\ \E status \in Statuses :
         ret' = ReturnOnStreamError(status)
    /\ cause' = "StreamError"
    /\ client' = ClientDropped
    /\ trace' = <<>>
    /\ counter' = 0
    /\ pc' = "retry"
    /\ UNCHANGED <<environ, args, zero_attempts, attempts, connects, interval, waits,
                   result, request, resub, left>>

\* Lines 680-718 and 727-728, item Some(Ok(msg)): up to the next await.
RecvFrame ==
    /\ pc = "recv"
    /\ left > 0
    /\ \E f \in Frames :
         /\ trace' = Append(trace, In(f))
         /\ left' = left - 1
         /\ IF Continues(Arm(f))
            THEN IF Decodes(f)
                 THEN /\ pc' = "recv"
                      /\ UNCHANGED <<counter, cause, client>>
                 ELSE /\ pc' = "panicked"
                      /\ cause' = "Panic"
                      /\ client' = ClientDropped
                      /\ counter' = counter
            ELSE IF Arm(f) = "Ping"
                 THEN /\ pc' = OnPing(counter, resub)
                      /\ UNCHANGED <<counter, cause, client>>
                 ELSE /\ counter' = counter + 1
                      /\ pc' = AfterMatch(counter + 1, resub)
                      /\ UNCHANGED <<cause, client>>
    /\ UNCHANGED <<environ, args, zero_attempts, attempts, connects, interval, waits,
                   ret, result, request, resub>>

\* Lines 709-714, then 727-728: the ack is sent and awaited.
AckSend ==
    /\ pc = "ack"
    /\ \E ok \in BOOLEAN :
         IF ok
         THEN /\ trace' = Append(trace, Out("ack", PingAck))
              /\ counter' = counter + 1
              /\ pc' = AfterMatch(counter + 1, resub)
              /\ UNCHANGED <<ret, cause, client>>
         ELSE /\ ret' = [kind |-> ActionErrorClass("send error"), err |-> "send error"]
              /\ cause' = "SendError"
              /\ client' = ClientDropped
              /\ trace' = <<>>
              /\ counter' = 0
              /\ pc' = "retry"
    /\ UNCHANGED <<environ, args, zero_attempts, attempts, connects, interval, waits,
                   result, request, resub, left>>

\* Lines 729-746: the resubscription is sent and awaited.
ResubSend ==
    /\ pc = "resub"
    /\ \E ok \in BOOLEAN :
         IF ok
         THEN /\ trace' = Append(trace, Out("resub", ResubRequest))
              /\ pc' = "recv"
              /\ UNCHANGED <<ret, cause, client, counter>>
         ELSE /\ ret' = [kind |-> ActionErrorClass("SubscribeSendError"), err |-> "SubscribeSendError"]
              /\ cause' = "SendError"
              /\ client' = ClientDropped
              /\ trace' = <<>>
              /\ counter' = 0
              /\ pc' = "retry"
    /\ UNCHANGED <<environ, args, zero_attempts, attempts, connects, interval, waits,
                   result, request, resub, left>>

(***************************************************************************)
(* backoff::future::retry around the closure (lines 584, 654-656).         *)
(***************************************************************************)
\* The closure returned Ok(()).
RetryOk ==
    /\ pc = "retry"
    /\ ret.kind = "Ok"
    /\ result' = Some([ok |-> TRUE])
    /\ pc' = "stopped"
    /\ UNCHANGED <<environ, args, zero_attempts, attempts, client, connects, interval,
                   waits, ret, request, resub, counter, trace, cause, left>>

\* backoff::Error::Permanent: returned at once.
RetryPermanent ==
    /\ pc = "retry"
    /\ ret.kind = "Permanent"
    /\ result' = Some(Err(ret.err))
    /\ pc' = "stopped"
    /\ UNCHANGED <<environ, args, zero_attempts, attempts, client, connects, interval,
                   waits, ret, request, resub, counter, trace, cause, left>>

\* backoff::Error::Transient and next_backoff() is Some(delay): sleep, then
\* call the closure again.
RetryBackoff ==
    /\ pc = "retry"
    /\ ret.kind = "Transient"
    /\ left > 0
    /\ \E delay \in RandomizedIntervals(interval) :
         waits' = Append(waits, delay)
    /\ interval' = increment_current_interval(interval)
    /\ ret' = NoRet
    /\ pc' = "attempt"
    /\ UNCHANGED <<environ, args, zero_attempts, attempts, client, connects, result,
                   request, resub, counter, trace, cause, left>>

\* backoff::Error::Transient and next_backoff() is None (max_elapsed_time,
\* 15 minutes since retry began, is over): the error is returned.
RetryGiveUp ==
    /\ pc = "retry"
    /\ ret.kind = "Transient"
    /\ result' = Some(Err(ret.err))
    /\ pc' = "stopped"
    /\ UNCHANGED <<environ, args, zero_attempts, attempts, client, connects, interval,
                   waits, ret, request, resub, counter, trace, cause, left>>

Next ==
    \/ AttemptStart
    \/ Connect
    \/ OneShot
    \/ BuildRequest
    \/ HealthOpen
    \/ HealthRecv
    \/ SubscribeOpen
    \/ RecvEnd
    \/ RecvError
    \/ RecvFrame
    \/ AckSend
    \/ ResubSend
    \/ RetryOk
    \/ RetryPermanent
    \/ RetryBackoff
    \/ RetryGiveUp

Spec == Init /\ [][Next]_vars


(***************************************************************************)
(* Reading the trace of the open stream.                                   *)
(***************************************************************************)
IsIn(e) == e.dir = "in"
IsOut(e, site) == e.dir = "out" /\ e.site = site
IsPingIn(e) == e.dir = "in" /\ e.frame.kind = "Ping"

\* The frames read so far, in order.
Inbound(tr) ==
    LET ins == SelectSeq(tr, IsIn)
    IN  [i \in 1..Len(ins) |-> ins[i].frame]

\* How many requests the given site of geyser_subscribe has written.
Written(tr, site) == Cardinality({i \in 1..Len(tr) : IsOut(tr[i], site)})

Pings(tr) == Cardinality({i \in 1..Len(tr) : IsPingIn(tr[i])})

Streaming == pc \in {"recv", "ack", "resub"}

\* The build of this run's request fails.
BuildFails == ~get_subscribe_request(args.action, get_commitment(args)).ok

(***************************************************************************)
(* C1.  Every Ping read is answered by exactly one ack with ping id 1, and *)
(* the ack is written before the next frame is read: whenever the session  *)
(* is about to read, acks and Pings are equal in number; an ack directly   *)
(* follows its Ping and nothing but a Ping is directly followed by an ack; *)
(* after [Ping, Account, Ping] two acks are written, one after each Ping.  *)
(***************************************************************************)
C1_PingAckedBeforeNextRead ==
    /\ Streaming =>
         /\ pc \in {"recv", "resub"} => Written(trace, "ack") = Pings(trace)
         /\ pc = "ack" => Written(trace, "ack") + 1 = Pings(trace)
    /\ \A i \in 1..Len(trace) :
         /\ IsOut(trace[i], "ack") =>
              /\ trace[i].req.ping = Some([id |-> 1])
              /\ i > 1 /\ IsPingIn(trace[i - 1])
         /\ (IsPingIn(trace[i]) /\ i < Len(trace)) => IsOut(trace[i + 1], "ack")
    /\ ( /\ pc = "recv"
         /\ Len(Inbound(trace)) = 3
         /\ Inbound(trace)[1].kind = "Ping"
         /\ Inbound(trace)[2].kind = "Account"
         /\ Inbound(trace)[3].kind = "Ping" )
       => /\ Written(trace, "ack") = 2
          /\ \E i, j \in 1..Len(trace) :
               /\ i < j
               /\ IsOut(trace[i], "ack") /\ IsOut(trace[j], "ack")
               /\ \E k \in (i + 1)..(j - 1) :
                    IsIn(trace[k]) /\ trace[k].frame.kind = "Account"

\* [Ping, Account, Ping] has been read and answered.
C1_Witness ==
    /\ pc = "recv"
    /\ Len(Inbound(trace)) = 3
    /\ Inbound(trace)[1].kind = "Ping"
    /\ Inbound(trace)[2].kind = "Account"
    /\ Inbound(trace)[3].kind = "Ping"
    /\ Written(trace, "ack") = 2


(***************************************************************************)
(* C2.  The resubscription request is written at most once per session,    *)
(* and only in a step taken while the counter equals the threshold and the *)
(* threshold is not 0: every step that adds a resubscription to the stream *)
(* starts with none written, counter = resub and resub # 0.                *)
(***************************************************************************)
C2_ResubAtMostOnceAtThreshold ==
    [][ Written(trace', "resub") > Written(trace, "resub") =>
          /\ Written(trace, "resub") = 0
          /\ Written(trace', "resub") = 1
          /\ counter = resub
          /\ resub # 0 ]_vars

\* A resubscription was written and counted frames were handled after it.
C2_Witness ==
    /\ pc = "recv"
    /\ Written(trace, "resub") = 1
    /\ counter > resub

(***************************************************************************)
(* C3 as stated: a Ping does not count, so a session that has read only    *)
(* Pings has written no resubscription and is not about to, and the frame  *)
(* read last before a resubscription is never a Ping.                      *)
(***************************************************************************)
C3_PingNeverTriggersResub ==
    /\ ( /\ Streaming
         /\ \A i \in 1..Len(Inbound(trace)) : Inbound(trace)[i].kind = "Ping" )
       => (Written(trace, "resub") = 0 /\ pc # "resub")
    /\ pc = "resub" => Inbound(trace)[Len(Inbound(trace))].kind # "Ping"

(***************************************************************************)
(* C4 as stated: with a threshold N > 0 the resubscription has been        *)
(* written, when the session is about to read, exactly if N or more data   *)
(* frames (every frame but Ping and Pong) have been read.                  *)
(***************************************************************************)
DataFrames(tr) ==
    Cardinality({i \in 1..Len(Inbound(tr)) :
                    Inbound(tr)[i].kind \notin {"Ping", "Pong"}})

C4_ResubAfterNthDataFrame ==
    (pc = "recv" /\ resub > 0) =>
        (Written(trace, "resub") = 1 <=> DataFrames(trace) >= resub)

(***************************************************************************)
(* C5 as stated: a session left on a stream error returns that error, as a *)
(* transient one, to the retry loop.                                       *)
(***************************************************************************)
C5_StreamErrorPropagates ==
    (pc = "retry" /\ cause = "StreamError") => ret.kind = "Transient"

(***************************************************************************)
(* C6 as stated: a frame without its required field never aborts the       *)
(* process: the session ends and the retry loop gets a transient error.    *)
(***************************************************************************)
C6_MissingFieldNotAbort ==
    \A i \in 1..Len(Inbound(trace)) :
        Inbound(trace)[i].body = "missing" => pc # "panicked"

(***************************************************************************)
(* C7.  A failed build is returned as a permanent error, and a permanent   *)
(* error stops the run in the next step with that error as the result of   *)
(* main: no wait, no further attempt and no further connection follow it.  *)
(***************************************************************************)
C7_BuildFailureStops ==
    [][ /\ (pc = "connected" /\ args.action.kind = "Subscribe" /\ BuildFails) =>
            /\ pc' = "retry"
            /\ ret' = Permanent(
                 get_subscribe_request(args.action, get_commitment(args)).err)
        /\ (pc = "retry" /\ ret.kind = "Permanent") =>
            /\ pc' = "stopped"
            /\ result' = Some(Err(ret.err))
            /\ waits' = waits
            /\ attempts' = attempts
            /\ connects' = connects
        /\ pc = "stopped" => pc' = "stopped" ]_vars

\* The run stopped on a malformed memcmp string, after a first attempt that
\* could not connect.
C7_Witness ==
    /\ pc = "stopped"
    /\ result = Some(Err("invalid memcmp"))
    /\ attempts = 2
    /\ Len(waits) = 1

(***************************************************************************)
(* C8 as stated: an action the server rejects as malformed is a permanent  *)
(* error for the retry loop.                                               *)
(***************************************************************************)
C8_RejectionIsPermanent ==
    (pc = "retry" /\ ret.kind # "Ok" /\ ret.kind # "none"
        /\ ret.err = "InvalidArgument") => ret.kind = "Permanent"

(***************************************************************************)
(* C9 as stated: when a memcmp or data-slice string of the options is      *)
(* malformed, no connection is ever opened and no request is ever written. *)
(***************************************************************************)
Malformed(str, isSlice) ==
    \/ ~split_once(str).some
    \/ ~parse_u64(split_once(str).val.left).ok
    \/ (isSlice /\ ~parse_u64(split_once(str).val.right).ok)

HasMalformedString ==
    /\ args.action.kind = "Subscribe"
    /\ \/ \E i \in 1..Len(args.action.subscribe.accounts_memcmp) :
            Malformed(args.action.subscribe.accounts_memcmp[i], FALSE)
       \/ \E i \in 1..Len(args.action.subscribe.accounts_data_slice) :
            Malformed(args.action.subscribe.accounts_data_slice[i], TRUE)

C9_MalformedFailsBeforeNetwork ==
    HasMalformedString => (connects = 0 /\ ~client /\ trace = <<>>)

(***************************************************************************)
(* C10.  After a Ping is read, the next request written on the stream is   *)
(* the ack with ping id 1: while the ack is pending nothing has been       *)
(* written after the Ping, and when the Ping is the frame that makes the   *)
(* resubscription due, the ack comes first and the resubscription second.  *)
(***************************************************************************)
C10_AckFirstAfterPing ==
    \A i \in 1..Len(trace) : IsPingIn(trace[i]) =>
        /\ i = Len(trace) => pc = "ack"
        /\ \A j \in (i + 1)..Len(trace) :
             ( /\ trace[j].dir = "out"
               /\ \A k \in (i + 1)..(j - 1) : trace[k].dir = "in" )
             => (j = i + 1 /\ trace[j].site = "ack" /\ trace[j].req = PingAck)

\* A Ping made the resubscription due: ack, then resubscription.
C10_Witness ==
    \E i \in 1..Len(trace) :
        /\ IsPingIn(trace[i])
        /\ i + 2 <= Len(trace)
        /\ IsOut(trace[i + 1], "ack")
        /\ IsOut(trace[i + 2], "resub")

(***************************************************************************)
(* C11.  Whatever the initial request was, every resubscription written    *)
(* holds one slots group, labelled "client", with the default slots filter *)
(* (filter_by_commitment unset), no group in the six other categories, no  *)
(* commitment, no data slice and no ping.                                  *)
(***************************************************************************)
C11_ResubRequestContent ==
    \A i \in 1..Len(trace) : IsOut(trace[i], "resub") =>
        /\ trace[i].req.slots = {[k |-> "client", v |-> [filter_by_commitment |-> None]]}
        /\ trace[i].req.accounts = {}
        /\ trace[i].req.transactions = {}
        /\ trace[i].req.transactions_status = {}
        /\ trace[i].req.entry = {}
        /\ trace[i].req.blocks = {}
        /\ trace[i].req.blocks_meta = {}
        /\ trace[i].req.commitment = None
        /\ trace[i].req.accounts_data_slice = <<>>
        /\ trace[i].req.ping = None

\* A resubscription was written in a session whose initial request had
\* account and transaction groups, a commitment and a ping.
C11_Witness ==
    /\ Written(trace, "resub") = 1
    /\ trace[1].req.accounts # {}
    /\ trace[1].req.transactions # {}
    /\ trace[1].req.ping # None
    /\ trace[1].req.commitment # None

(***************************************************************************)
(* C12.  When the peer closes the stream, the session ends with            *)
(* EndOfStream and returns success; the retry loop then stops with a       *)
(* successful result, with no backoff wait and no further attempt or       *)
(* connection.                                                             *)
(***************************************************************************)
C12_CleanEndStopsWithSuccess ==
    [][/\ (pc = "recv" /\ cause' = "EndOfStream") =>
            /\ ret' = RetOk
            /\ pc' = "retry"
            /\ result' = None
       /\ (pc = "retry" /\ cause = "EndOfStream") =>
            /\ pc' = "stopped"
            /\ result' = Some([ok |-> TRUE])
            /\ waits' = waits
            /\ attempts' = attempts
            /\ connects' = connects]_vars

\* The run stopped after a clean end of a stream that had delivered a frame.
C12_Witness ==
    /\ pc = "stopped"
    /\ cause = "EndOfStream"
    /\ result = Some([ok |-> TRUE])
    /\ left < MaxEvents - 1

(***************************************************************************)
(* C13.  A failed send on the stream (initial request, ping ack or         *)
(* resubscription) ends the session with a transient error; the retry loop *)
(* then either waits one backoff delay and starts a new attempt, or, once  *)
(* the backoff policy has run out of time, stops with that error.  Nothing *)
(* more is read from or written to the failed stream: frames are exchanged *)
(* again only on a stream opened over a new connection.                    *)
(***************************************************************************)
C13_SendFailureIsTransient ==
    [][/\ (pc \in {"subscribe", "ack", "resub"} /\ pc' = "retry") =>
            /\ ret'.kind = "Transient"
            /\ ~client'
            /\ trace' = <<>>
       /\ (pc = "retry" /\ ret.kind = "Transient") =>
            /\ trace' = <<>>
            /\ \/ /\ pc' = "attempt"
                  /\ Len(waits') = Len(waits) + 1
                  /\ result' = None
               \/ /\ pc' = "stopped"
                  /\ result' = Some(Err(ret.err))
       /\ (trace = <<>> /\ trace' # <<>>) =>
            /\ pc = "subscribe"
            /\ client
            /\ trace' = <<Out("initial", request)>>]_vars

\* A send on an open stream failed and the retry loop has waited once
\* before a new attempt.
C13_Witness ==
    /\ pc = "attempt"
    /\ cause = "SendError"
    /\ Len(waits) = 1
    /\ ~client

(***************************************************************************)
(* C14.  When connect fails on the first two attempts and succeeds on the  *)
(* third, there are exactly two backoff waits and the second delay is      *)
(* greater than the first (or equal to it at the cap).                     *)
(*                                                                         *)
(* The retry policy does not give this: each delay is drawn around the     *)
(* current interval, half of it either way, and the interval grows by 1.5  *)
(* only, so a long first draw (750 ms of 500 ms) can be followed by a      *)
(* short second one (375 ms of 750 ms).                                    *)
(***************************************************************************)
C14_ThirdAttemptConnected ==
    /\ pc = "connected"
    /\ attempts = 3
    /\ connects = 1

\* C14: at the third attempt, connected after two failed connects, there
\* have been exactly two waits, the second longer than the first or equal
\* to it with the interval at its cap.
C14_DelaysIncrease ==
    C14_ThirdAttemptConnected =>
        /\ Len(waits) = 2
        /\ \/ waits[2] > waits[1]
           \/ waits[2] = waits[1] /\ interval = MaxInterval

(***************************************************************************)
(* C15.  Whenever the build succeeds, each of the seven categories has an  *)
(* empty group map when its gate is false, and when its gate is true a map *)
(* of exactly one group filled from the sub-options of that category.      *)
(***************************************************************************)
\* The one group of map m satisfies P; m has no other group.
OneGroup(m, P(_)) == Cardinality(m) = 1 /\ \A e \in m : P(e.v)

C15_AccountsGroup(a, g) ==
    /\ SubSeq(g.account, 1, Len(a.accounts_account)) = a.accounts_account
    /\ Len(g.account) >= Len(a.accounts_account)
    /\ (~a.accounts_account_path.some => g.account = a.accounts_account)
    /\ g.owner = a.accounts_owner
    /\ Len(g.filters) = Len(a.accounts_memcmp)
                          + (IF a.accounts_datasize.some THEN 1 ELSE 0)
                          + (IF a.accounts_token_account_state THEN 1 ELSE 0)

C15_GatesPopulateGroups ==
    pc = "subscribe" =>
      LET a == args.action.subscribe
          Accounts(g) == C15_AccountsGroup(a, g)
          Slots(g) == g = [filter_by_commitment |-> Some(a.slots_filter_by_commitment)]
          Transactions(g) ==
              g = [vote |-> a.transactions_vote,
                   failed |-> a.transactions_failed,
                   signature |-> a.transactions_signature,
                   account_include |-> a.transactions_account_include,
                   account_exclude |-> a.transactions_account_exclude,
                   account_required |-> a.transactions_account_required]
          TransactionsStatus(g) ==
              g = [vote |-> a.transactions_status_vote,
                   failed |-> a.transactions_status_failed,
                   signature |-> a.transactions_status_signature,
                   account_include |-> a.transactions_status_account_include,
                   account_exclude |-> a.transactions_status_account_exclude,
                   account_required |-> a.transactions_status_account_required]
          Blocks(g) ==
              g = [account_include |-> a.blocks_account_include,
                   include_transactions |-> a.blocks_include_transactions,
                   include_accounts |-> a.blocks_include_accounts,
                   include_entries |-> a.blocks_include_entries]
          Unit(g) == TRUE
      IN  /\ IF a.accounts THEN OneGroup(request.accounts, Accounts)
                           ELSE request.accounts = {}
          /\ IF a.slots THEN OneGroup(request.slots, Slots)
                        ELSE request.slots = {}
          /\ IF a.transactions THEN OneGroup(request.transactions, Transactions)
                               ELSE request.transactions = {}
          /\ IF a.transactions_status
             THEN OneGroup(request.transactions_status, TransactionsStatus)
             ELSE request.transactions_status = {}
          /\ IF a.entry THEN OneGroup(request.entry, Unit)
                        ELSE request.entry = {}
          /\ IF a.blocks THEN OneGroup(request.blocks, Blocks)
                         ELSE request.blocks = {}
          /\ IF a.blocks_meta THEN OneGroup(request.blocks_meta, Unit)
                              ELSE request.blocks_meta = {}

\* A request was built with some gates true and some false, the sub-options
\* of every category being set, those of the closed gates included.
C15_Witness ==
    /\ pc = "subscribe"
    /\ ~args.action.subscribe.accounts
    /\ args.action.subscribe.accounts_owner # <<>>
    /\ args.action.subscribe.slots
    /\ args.action.subscribe.transactions
    /\ ~args.action.subscribe.transactions_status
    /\ args.action.subscribe.transactions_status_signature # None
    /\ args.action.subscribe.entry
    /\ args.action.subscribe.blocks
    /\ ~args.action.subscribe.blocks_meta

(***************************************************************************)
(* C16.  Every request written on a stream (initial request, ping ack,     *)
(* resubscription) has, in each of the seven categories, at most one group *)
(* and no group under a label other than "client".                         *)
(***************************************************************************)
C16_Maps(req) ==
    {req.accounts, req.slots, req.transactions, req.transactions_status,
     req.entry, req.blocks, req.blocks_meta}

C16_OneLabelPerCategory ==
    \A i \in 1..Len(trace) : ~IsIn(trace[i]) =>
        \A m \in C16_Maps(trace[i].req) :
            /\ Cardinality(m) <= 1
            /\ Keys(m) \subseteq {"client"}

\* An initial request with groups in two categories, a ping ack and a
\* resubscription have all been written on one stream.
C16_Witness ==
    /\ Written(trace, "initial") = 1
    /\ Written(trace, "ack") >= 1
    /\ Written(trace, "resub") = 1
    /\ Keys(trace[1].req.accounts) = {"client"}
    /\ Keys(trace[1].req.transactions) = {"client"}

(***************************************************************************)
(* C17.  The memcmp list holds a malformed string (no comma, or an offset  *)
(* that is not a non-negative integer).                                    *)
(*                                                                         *)
(* C17_MalformedMemcmpAlwaysFails is the statement as claimed: for every   *)
(* such option set the build fails with the invalid-filter error           *)
(* ("invalid memcmp" or "invalid offset").                                 *)
(*                                                                         *)
(* C17_MalformedMemcmpFailsWhenRead is what the builder does: the list is  *)
(* read only when the accounts gate is true.  Then the build fails and no  *)
(* request is returned; the error is that of the first malformed string    *)
(* ("invalid memcmp" without a comma, "invalid offset" otherwise), unless  *)
(* the address file could not be read, which fails the build before the    *)
(* list is looked at.  With the gate false the list never fails the build. *)
(***************************************************************************)
HasMalformedMemcmp ==
    \E i \in 1..Len(args.action.subscribe.accounts_memcmp) :
        Malformed(args.action.subscribe.accounts_memcmp[i], FALSE)

InvalidFilterErrors == {"invalid memcmp", "invalid offset"}

C17_MalformedMemcmpAlwaysFails ==
    (pc # "connected" /\ HasMalformedMemcmp) =>
        /\ pc = "retry"
        /\ ret.err \in InvalidFilterErrors
        /\ request = DefaultRequest

C17_MalformedMemcmpFailsWhenRead ==
    (pc # "connected" /\ HasMalformedMemcmp) =>
      LET a  == args.action.subscribe
          l  == a.accounts_memcmp
          i0 == CHOOSE i \in 1..Len(l) :
                    /\ Malformed(l[i], FALSE)
                    /\ \A j \in 1..(i - 1) : ~Malformed(l[j], FALSE)
      IN  IF a.accounts
          THEN /\ pc = "retry"
               /\ request = DefaultRequest
               /\ ret.err =
                    IF a.accounts_account_path.some
                       /\ ~FileRead(a.accounts_account_path.val).ok
                    THEN "io error"
                    ELSE IF FirstComma(l[i0]) = 0 THEN "invalid memcmp"
                    ELSE "invalid offset"
          ELSE /\ pc = "retry" => ret.err \notin InvalidFilterErrors
               /\ a.accounts_data_slice = <<>> =>
                    (pc = "subscribe" /\ request.accounts = {})

\* The build failed on the second string of the list, the first being well
\* formed, with the address file read before.
C17_Witness ==
    /\ pc = "retry"
    /\ args.action.subscribe.accounts
    /\ args.action.subscribe.accounts_account_path = Some("accounts.json")
    /\ Len(args.action.subscribe.accounts_memcmp) = 2
    /\ ~Malformed(args.action.subscribe.accounts_memcmp[1], FALSE)
    /\ ret.err = "invalid offset"

(***************************************************************************)
(* Decimal text of a number, and the canonical form of a number's text     *)
(* (no sign, no leading zeros), to compare what was parsed with what was   *)
(* written.                                                                *)
(***************************************************************************)
DigitChar(d) ==
    CASE d = 0 -> "0" [] d = 1 -> "1" [] d = 2 -> "2" [] d = 3 -> "3"
      [] d = 4 -> "4" [] d = 5 -> "5" [] d = 6 -> "6" [] d = 7 -> "7"
      [] d = 8 -> "8" [] d = 9 -> "9"

RECURSIVE ToDigits(_)
ToDigits(n) ==
    IF n < 10 THEN <<DigitChar(n)>>
    ELSE ToDigits(n \div 10) \o <<DigitChar(n % 10)>>

RECURSIVE StripZeros(_)
StripZeros(s) ==
    IF Len(s) > 1 /\ s[1] = "0" THEN StripZeros(Tail(s)) ELSE s

CanonicalNumber(s) ==
    StripZeros(IF s # <<>> /\ s[1] = "+" THEN Tail(s) ELSE s)

BeforeComma(s) == SubSeq(s, 1, FirstComma(s) - 1)
AfterComma(s) == SubSeq(s, FirstComma(s) + 1, Len(s))

(***************************************************************************)
(* C18.  In an accounts-enabled subscription whose build succeeds, the     *)
(* i-th filter of the accounts group is the memcmp predicate of the i-th   *)
(* well-formed string "offset,base58data": its offset is the number        *)
(* written before the first comma and its payload the text after the first *)
(* comma.  The data-size predicate, if set, follows the memcmp predicates  *)
(* and the token-account-state predicate, if set, comes last.  A list of   *)
(* well-formed strings does not fail the build.                            *)
(***************************************************************************)
\* Base58 text has no white space in it.
WellFormedMemcmp(s) ==
    /\ ~Malformed(s, FALSE)
    /\ \A i \in 1..Len(AfterComma(s)) : AfterComma(s)[i] \notin WhiteSpace

C18_MemcmpPredicates ==
    LET a == args.action.subscribe
        l == a.accounts_memcmp
        n == Len(l)
    IN  /\ (pc = "subscribe" /\ a.accounts) =>
             LET f == (CHOOSE e \in request.accounts : TRUE).v.filters
             IN  /\ Len(f) = n + (IF a.accounts_datasize.some THEN 1 ELSE 0)
                               + (IF a.accounts_token_account_state THEN 1 ELSE 0)
                 /\ \A i \in 1..n : WellFormedMemcmp(l[i]) =>
                      /\ f[i].filter = "Memcmp"
                      /\ ToDigits(f[i].offset) = CanonicalNumber(BeforeComma(l[i]))
                      /\ f[i].base58 = AfterComma(l[i])
                 /\ a.accounts_datasize.some =>
                      f[n + 1] = [filter |-> "Datasize",
                                  size |-> a.accounts_datasize.val]
                 /\ a.accounts_token_account_state =>
                      f[Len(f)] = [filter |-> "TokenAccountState", value |-> TRUE]
        /\ (/\ pc # "connected"
            /\ a.accounts
            /\ \A i \in 1..n : WellFormedMemcmp(l[i])
            /\ ~a.accounts_account_path.some
            /\ a.accounts_data_slice = <<>>) => pc = "subscribe"

\* A request was built from two different well-formed memcmp strings, one of
\* them with a second comma, with the two other predicates set.
C18_Witness ==
    /\ pc = "subscribe"
    /\ args.action.subscribe.accounts
    /\ Len(args.action.subscribe.accounts_memcmp) = 2
    /\ WellFormedMemcmp(args.action.subscribe.accounts_memcmp[1])
    /\ WellFormedMemcmp(args.action.subscribe.accounts_memcmp[2])
    /\ FirstComma(AfterComma(args.action.subscribe.accounts_memcmp[1])) > 0
    /\ FirstComma(AfterComma(args.action.subscribe.accounts_memcmp[2])) = 0
    /\ args.action.subscribe.accounts_datasize.some
    /\ args.action.subscribe.accounts_token_account_state

(***************************************************************************)
(* C19.  When every data-slice string is a well-formed "offset,length"     *)
(* (and the accounts block has not failed the build before), the build     *)
(* succeeds; the data-slice list of the request has the length and the     *)
(* order of the input, and writing its i-th element back as                *)
(* "offset,length" gives the i-th string in canonical form (no sign, no    *)
(* leading zeros).                                                         *)
(***************************************************************************)
\* The accounts block (314-364) ends the build with an error of its own.
AccountsBlockFails ==
    /\ args.action.subscribe.accounts
    /\ \/ /\ args.action.subscribe.accounts_account_path.some
          /\ ~FileRead(args.action.subscribe.accounts_account_path.val).ok
       \/ HasMalformedMemcmp

AllSlicesWellFormed ==
    \A i \in 1..Len(args.action.subscribe.accounts_data_slice) :
        ~Malformed(args.action.subscribe.accounts_data_slice[i], TRUE)

Reserialize(e) == ToDigits(e.offset) \o <<",">> \o ToDigits(e.length)

CanonicalSlice(s) ==
    CanonicalNumber(BeforeComma(s)) \o <<",">> \o CanonicalNumber(AfterComma(s))

C19_DataSliceRoundTrip ==
    (pc # "connected" /\ AllSlicesWellFormed /\ ~AccountsBlockFails) =>
        LET l == args.action.subscribe.accounts_data_slice
        IN  /\ pc = "subscribe"
            /\ Len(request.accounts_data_slice) = Len(l)
            /\ \A i \in 1..Len(l) :
                 Reserialize(request.accounts_data_slice[i]) = CanonicalSlice(l[i])

\* A request was built from two different well-formed strings, one of them
\* not in canonical form.
C19_Witness ==
    /\ pc = "subscribe"
    /\ Len(args.action.subscribe.accounts_data_slice) = 2
    /\ args.action.subscribe.accounts_data_slice[1]
         # args.action.subscribe.accounts_data_slice[2]
    /\ CanonicalSlice(args.action.subscribe.accounts_data_slice[1])
         # args.action.subscribe.accounts_data_slice[1]
    /\ CanonicalSlice(args.action.subscribe.accounts_data_slice[2])
         = args.action.subscribe.accounts_data_slice[2]

(***************************************************************************)
(* C20.  The data-slice list holds a malformed string (no comma, or an     *)
(* offset or a length that is not a non-negative integer).                 *)
(*                                                                         *)
(* C20_MalformedSliceAlwaysInvalidSlice is the statement as claimed: the   *)
(* build fails with "invalid data_slice" and returns no request, whatever  *)
(* the gates and wherever the string stands.                               *)
(*                                                                         *)
(* C20_MalformedSliceFailsBuild is what the builder does: the build fails  *)
(* and returns no request, whatever the gates and wherever the string      *)
(* stands; the error is "invalid data_slice" unless the accounts block,    *)
(* which runs first, has already failed the build with its own error (the  *)
(* address file cannot be read, or a memcmp string is malformed, the       *)
(* accounts gate being true).                                              *)
(***************************************************************************)
HasMalformedSlice ==
    \E i \in 1..Len(args.action.subscribe.accounts_data_slice) :
        Malformed(args.action.subscribe.accounts_data_slice[i], TRUE)

C20_MalformedSliceAlwaysInvalidSlice ==
    (pc # "connected" /\ HasMalformedSlice) =>
        /\ pc = "retry"
        /\ request = DefaultRequest
        /\ ret.err = "invalid data_slice"

C20_MalformedSliceFailsBuild ==
    (pc # "connected" /\ HasMalformedSlice) =>
        /\ pc = "retry"
        /\ request = DefaultRequest
        /\ IF AccountsBlockFails
           THEN ret.err \in {"io error"} \cup InvalidFilterErrors
           ELSE ret.err = "invalid data_slice"

\* The build failed with "invalid data_slice" on the second string of the
\* list, the first being well formed, the accounts gate being false and a
\* malformed memcmp string left unread.
C20_Witness ==
    /\ pc = "retry"
    /\ ret.err = "invalid data_slice"
    /\ ~args.action.subscribe.accounts
    /\ HasMalformedMemcmp
    /\ Len(args.action.subscribe.accounts_data_slice) = 2
    /\ ~Malformed(args.action.subscribe.accounts_data_slice[1], TRUE)
    /\ Malformed(args.action.subscribe.accounts_data_slice[2], TRUE)

(***************************************************************************)
(* C21.  A frame with no recognised variant (update_oneof is None, which   *)
(* is also what a variant unknown to the decoder becomes) does not end the *)
(* session: it is taken by the catch-all arm and logged as it is, the      *)
(* counter goes up by one, and the session stays open, going on to read    *)
(* the next frame, after the resubscription when this frame made it due.   *)
(***************************************************************************)
C21_ReadsUnrecognized ==
    /\ Len(trace') = Len(trace) + 1
    /\ IsIn(trace'[Len(trace')])
    /\ trace'[Len(trace')].frame.kind = "None"

C21_UnrecognizedFramePassesThrough ==
    [][C21_ReadsUnrecognized =>
         /\ pc = "recv"
         /\ trace' = Append(trace, In([kind |-> "None", body |-> "ok"]))
         /\ counter' = counter + 1
         /\ pc' = IF counter + 1 = resub THEN "resub" ELSE "recv"
         /\ client' = TRUE
         /\ ret' = NoRet
         /\ cause' = "none"]_vars

\* An unrecognised frame was read and counted, and a frame was read after it.
C21_Witness ==
    /\ pc = "recv"
    /\ counter >= 1
    /\ \E i \in 1..Len(trace) : \E j \in (i + 1)..Len(trace) :
         /\ IsIn(trace[i]) /\ trace[i].frame.kind = "None"
         /\ IsIn(trace[j])

(***************************************************************************)
(* C22.  At most one connection is open at any time.  An attempt opens at  *)
(* most one connection, and whichever way it ends (success, transient      *)
(* error, permanent error) the connection is closed when the attempt       *)
(* returns: none is open while the retry loop decides, waits or has        *)
(* stopped, and none is open when the next attempt connects.               *)
(***************************************************************************)
C22_OneConnectionAtATime ==
    [][/\ (pc' \in {"retry", "attempt", "connect", "stopped"}) => ~client'
       /\ (connects' # connects) =>
            /\ ~client
            /\ client'
            /\ connects' = connects + 1
            /\ pc = "connect"
       /\ connects' <= attempts'
       /\ (pc = "retry" /\ pc' = "stopped") =>
            (~client' /\ ret.kind \in {"Ok", "Transient", "Permanent"})]_vars

\* A second connection is open after the session of the first attempt ended
\* with a transient error.
C22_Witness ==
    /\ client
    /\ connects = 2
    /\ attempts = 2
    /\ pc = "recv"

(***************************************************************************)
(* C23.  The writes of a session happen one at a time and never overlap    *)
(* the handling of a frame: while a write is in progress (the initial      *)
(* request, an ack, the resubscription) the only thing that happens on the *)
(* stream is the end of that write, or the end of the session; a frame is  *)
(* read only when everything the frames before it called for has been      *)
(* written (every Ping has its ack right after it, the resubscription is   *)
(* out if the counter has reached the threshold).                          *)
(***************************************************************************)
\* All that the frames of tr called for has been written.
C23_Handled(tr, c, r) ==
    /\ \A i \in 1..Len(tr) : IsPingIn(tr[i]) =>
          (i < Len(tr) /\ IsOut(tr[i + 1], "ack"))
    /\ (r > 0 /\ c >= r) => Written(tr, "resub") = 1

C23_WritesSerialized ==
    [][/\ (pc = "subscribe") =>
            (trace' = <<Out("initial", request)>> \/ (pc' = "retry" /\ trace' = <<>>))
       /\ (pc = "ack") =>
            (trace' = Append(trace, Out("ack", PingAck))
               \/ (pc' = "retry" /\ trace' = <<>>))
       /\ (pc = "resub") =>
            (trace' = Append(trace, Out("resub", ResubRequest))
               \/ (pc' = "retry" /\ trace' = <<>>))
       /\ (Len(trace') = Len(trace) + 1 /\ IsIn(trace'[Len(trace')])) =>
            /\ pc = "recv"
            /\ trace' = Append(trace, trace'[Len(trace')])
            /\ C23_Handled(trace, counter, resub)]_vars

\* A frame was read after a Ping that also made the resubscription due: the
\* ack and the resubscription were both written before it.
C23_Witness ==
    /\ Len(trace) >= 5
    /\ IsPingIn(trace[Len(trace) - 3])
    /\ IsOut(trace[Len(trace) - 2], "ack")
    /\ IsOut(trace[Len(trace) - 1], "resub")
    /\ IsIn(trace[Len(trace)])

(***************************************************************************)
(* C24.  Once a frame has been handled, the counter is the number of       *)
(* frames read so far that are not Account, Transaction or                 *)
(* TransactionStatus updates (Ping, Pong, Slot, Block, BlockMeta, Entry    *)
(* and unrecognised frames count one each; a Ping counts once its ack is   *)
(* written).  The resubscription is written exactly when that number first *)
(* equals a nonzero threshold, so a session that has read only Account,    *)
(* Transaction and TransactionStatus frames has not resubscribed.          *)
(***************************************************************************)
C24_Uncounted == {"Account", "Transaction", "TransactionStatus"}

\* The frames of tr[1..n] that count.
C24_Counted(tr, n) ==
    Cardinality({i \in 1..n : IsIn(tr[i]) /\ tr[i].frame.kind \notin C24_Uncounted})

C24_CounterCountsOtherFrames ==
    /\ pc \in {"recv", "resub"} => counter = C24_Counted(trace, Len(trace))
    /\ pc = "ack" => counter = C24_Counted(trace, Len(trace)) - 1
    /\ pc = "resub" =>
         /\ resub > 0
         /\ C24_Counted(trace, Len(trace)) = resub
         /\ Written(trace, "resub") = 0
    /\ pc = "recv" =>
         Written(trace, "resub") =
            IF resub > 0 /\ C24_Counted(trace, Len(trace)) >= resub THEN 1 ELSE 0
    /\ Streaming =>
         \A i \in 1..Len(trace) : IsOut(trace[i], "resub") =>
            /\ C24_Counted(trace, i) = resub
            /\ C24_Counted(trace, i - 1) = resub
            /\ \A j \in 1..(i - 1) :
                 (IsIn(trace[j]) /\ C24_Counted(trace, j) = resub) =>
                    \A k \in (j + 1)..(i - 1) : IsOut(trace[k], "ack")

\* The resubscription was written at threshold 2 in a session that had read
\* an Account frame, which did not count, and a Ping, which did.
C24_Witness ==
    /\ pc = "recv"
    /\ resub = 2
    /\ counter = 2
    /\ Written(trace, "resub") = 1
    /\ Pings(trace) = 1
    /\ \E i \in 1..Len(trace) :
         IsIn(trace[i]) /\ trace[i].frame.kind = "Account"

(***************************************************************************)
(* C25.  Every ack written in reply to a Ping is a subscription request    *)
(* with ping id 1 and nothing else: the seven group maps are empty, there  *)
(* is no commitment and no data slice, whatever the initial request held   *)
(* and whether or not the resubscription has been written before.          *)
(***************************************************************************)
C25_AckIsPingOnly ==
    \A i \in 1..Len(trace) : IsOut(trace[i], "ack") =>
        trace[i].req =
            [slots |-> {}, accounts |-> {}, transactions |-> {},
             transactions_status |-> {}, entry |-> {}, blocks |-> {},
             blocks_meta |-> {}, commitment |-> [some |-> FALSE],
             accounts_data_slice |-> <<>>,
             ping |-> [some |-> TRUE, val |-> [id |-> 1]]]

\* An ack was written after the resubscription, in a session whose initial
\* request had account and transaction groups, a commitment and a ping id
\* other than 1.
C25_Witness ==
    /\ Len(trace) >= 3
    /\ IsOut(trace[Len(trace)], "ack")
    /\ Written(trace, "resub") = 1
    /\ trace[1].req.accounts # {}
    /\ trace[1].req.transactions # {}
    /\ trace[1].req.commitment # None
    /\ trace[1].req.ping = Some([id |-> 7])

(***************************************************************************)
(* C26.  Options loaded from the environment.                              *)
(*                                                                         *)
(* C26_SetSliceAlwaysInvalidSlice is the statement as claimed: whenever    *)
(* ACCOUNTS_DATA_SLICE is set the build fails with "invalid data_slice",   *)
(* and a build that succeeds had the variable unset.                       *)
(*                                                                         *)
(* C26_SplitListsFailSlices is what the program does.  No list element of  *)
(* the loaded options has a comma, and the data-slice list is empty        *)
(* exactly when the variable gave no text (unset, or set to bytes that are *)
(* not Unicode).  Whenever the variable is set to a text (a well-formed    *)
(* "offset,length" and the empty text included) the build fails and        *)
(* returns no request, with "invalid data_slice" unless the accounts       *)
(* block, which is built first, failed with its own error; a build that    *)
(* succeeds had no text in the variable.                                   *)
(***************************************************************************)
C26_NoComma(list) == \A i \in 1..Len(list) : FirstComma(list[i]) = 0

C26_ListsHaveNoComma ==
    LET a == args.action.subscribe
    IN  /\ C26_NoComma(a.accounts_account)
        /\ C26_NoComma(a.accounts_owner)
        /\ C26_NoComma(a.accounts_memcmp)
        /\ C26_NoComma(a.accounts_data_slice)
        /\ C26_NoComma(a.transactions_account_include)
        /\ C26_NoComma(a.transactions_account_exclude)
        /\ C26_NoComma(a.transactions_account_required)
        /\ C26_NoComma(a.transactions_status_account_include)
        /\ C26_NoComma(a.transactions_status_account_exclude)
        /\ C26_NoComma(a.transactions_status_account_required)
        /\ C26_NoComma(a.blocks_account_include)

C26_SliceHasText ==
    environ.ACCOUNTS_DATA_SLICE.set /\ environ.ACCOUNTS_DATA_SLICE.unicode

C26_SetSliceAlwaysInvalidSlice ==
    /\ C26_ListsHaveNoComma
    /\ (pc # "connected" /\ environ.ACCOUNTS_DATA_SLICE.set) =>
          (pc = "retry" /\ ret.err = "invalid data_slice")
    /\ pc = "subscribe" => ~environ.ACCOUNTS_DATA_SLICE.set

C26_SplitListsFailSlices ==
    /\ C26_ListsHaveNoComma
    /\ (args.action.subscribe.accounts_data_slice # <<>>) <=> C26_SliceHasText
    /\ (pc # "connected" /\ C26_SliceHasText) =>
          /\ pc = "retry"
          /\ request = DefaultRequest
          /\ IF AccountsBlockFails
             THEN ret.err \in {"io error", "invalid memcmp"}
             ELSE ret.err = "invalid data_slice"
    /\ pc = "subscribe" => ~C26_SliceHasText

\* ACCOUNTS_DATA_SLICE="0,4" was loaded as the two elements "0" and "4" and
\* the build failed with "invalid data_slice", an address list with a comma
\* having been split as well.
C26_Witness ==
    /\ pc = "retry"
    /\ ret.err = "invalid data_slice"
    /\ environ.ACCOUNTS_DATA_SLICE = Text(<<"0", ",", "4">>)
    /\ args.action.subscribe.accounts_data_slice = << <<"0">>, <<"4">> >>
    /\ args.action.subscribe.accounts_account = << <<"A", "1">>, <<"B", "2">> >>

=============================================================================
